---- MODULE Spec2Model ----
(***************************************************************************)
(* State-machine model of PicoGraphics_Zoomable_Mandelbrot.py:             *)
(* the two-unit column renderer (DrawMandelbrotX / mandelbrotThreadX),     *)
(* the cursor overlay (MoveCursor) and the navigation handlers             *)
(* (ChangeRez, Center, ZoomIn, ZoomOut) driven by Loop.                    *)
(*                                                                         *)
(* Numbers.  The viewport bounds are Python floats; they are modelled as   *)
(* exact rationals <<numerator, denominator>> in lowest terms, so the      *)
(* viewport arithmetic is the arithmetic of the source without rounding.   *)
(* The escape-time loop runs on fixed-point complex numbers with FixBits   *)
(* fractional bits.                                                        *)
(***************************************************************************)
EXTENDS Integers, Sequences, FiniteSets, TLC

\* ------------------------------------------------------------------ bounds
\* Half the surface width (the surface is WIDTH = 2 * HalfWidth columns).
HalfWidth == 2
\* Number of rows of the model's surface.
SurfaceHeight == 4
\* Resolution of an analog reading: a reading is r / AdcMax, r in 0..AdcMax.
AdcMax == 3
\* Viewport-changing button presses (Center, ZoomIn, ZoomOut) explored per
\* behaviour of the navigation loop.
MaxNav == 1
\* Resolution toggles explored per behaviour of the navigation loop.
MaxRez == 2
\* Zoom steps applied per behaviour when ZoomIn and ZoomOut are exercised alone.
MaxZoom == 2
\* Fractional bits of the fixed-point numbers of the escape-time loop.
FixBits == 6

\* --------------------------------------------------------------- constants
WIDTH == 2 * HalfWidth
HEIGHT == SurfaceHeight
width2 == WIDTH \div 2
height2 == HEIGHT \div 2

Min(a, b) == IF a < b THEN a ELSE b
Max(a, b) == IF a > b THEN a ELSE b
Abs(a) == IF a < 0 THEN 0 - a ELSE a

pen_colour ==
  << <<0,0,0>>,
     <<255,0,0>>, <<0,255,0>>, <<0,0,255>>, <<255,255,0>>,
     <<255,0,255>>, <<0,255,255>>, <<255,255,255>>,
     <<128,0,0>>, <<0,128,0>>, <<0,0,128>>, <<128,128,0>>,
     <<128,0,128>>, <<0,128,128>>, <<128,128,128>> >>

InitialMaxIter == 15
RequestedColours == 10
MAX_COLOURS == Min(RequestedColours, Len(pen_colour))
\* The modulus the worker applies to the iteration count.
WorkerModulus == 15

\* PEN_RGB332: 3 bits of red, 3 bits of green, 2 bits of blue in one byte.
create_pen(r, g, b) == (r \div 32) * 32 + (g \div 32) * 4 + (b \div 64)
WHITE == create_pen(255, 255, 255)
BLACK == create_pen(0, 0, 0)
PaletteByte(c) == create_pen(pen_colour[c + 1][1], pen_colour[c + 1][2], pen_colour[c + 1][3])

\* --------------------------------------------------------------- rationals
\* In the operators of this section and in the escape loop, v \in {e} binds v to
\* the value of e, so that e is evaluated once however often v is used.
RECURSIVE GCD(_, _)
GCD(a, b) ==
  IF b = 0 THEN a ELSE CHOOSE g \in {GCD(w[1], w[2]) : w \in {<<b, a % b>>}} : TRUE

Norm(n, d) ==
  CHOOSE q \in {<<w[1] \div w[3], w[2] \div w[3]>> : w \in {<<n, d, GCD(Abs(n), d)>>}} : TRUE
RAdd(p, q) ==
  CHOOSE r \in {Norm(w[1][1] * w[2][2] + w[2][1] * w[1][2], w[1][2] * w[2][2]) :
                 w \in {<<p, q>>}} : TRUE
RSub(p, q) ==
  CHOOSE r \in {Norm(w[1][1] * w[2][2] - w[2][1] * w[1][2], w[1][2] * w[2][2]) :
                 w \in {<<p, q>>}} : TRUE
\* p * k / d for integers k and d > 0
RScale(p, k, d) == CHOOSE r \in {Norm(w[1] * k, w[2] * d) : w \in {p}} : TRUE
RLess(p, q) == p[1] * q[2] < q[1] * p[2]
RLeq(p, q) == p[1] * q[2] <= q[1] * p[2]
RZero == <<0, 1>>

\* The initial area: realStart, realEnd = -2.05, 0.55; imStart, imEnd = -1.2, 1.2
InitialViewport == [realStart |-> Norm(0 - 205, 100), realEnd |-> Norm(55, 100),
                    imStart |-> Norm(0 - 12, 10), imEnd |-> Norm(12, 10)]

\* ------------------------------------------------------ escape-time loop
FixOne == 2 ^ FixBits
ToFix(q) == (q[1] * FixOne) \div q[2]

RECURSIVE MandelLoop(_, _, _, _, _, _)
MandelLoop(zr, zi, cr, ci, n, maxIter) ==
  IF zr * zr + zi * zi <= 4 * FixOne * FixOne /\ n <= maxIter
  THEN LET step == {<<((zr * zr - zi * zi) \div FixOne) + cr,
                      ((2 * zr * zi) \div FixOne) + ci, n + 1>>}
       IN CHOOSE r \in {MandelLoop(w[1], w[2], cr, ci, w[3], maxIter) : w \in step} : TRUE
  ELSE n

\* mandelbrot(c): mz, n = 0, 0; iterate while abs(mz) <= 2 and n <= MAX_ITER
mandelbrot(cr, ci, maxIter) == MandelLoop(0, 0, cr, ci, 0, maxIter)

\* start + (p / size) * (end - start)
Sample(start, end, p, size) ==
  CHOOSE v \in {RAdd(start, w) : w \in {RScale(d, p, size) : d \in {RSub(end, start)}}} : TRUE

\* Iteration count of pixel (xc, yr) under viewport vp and budget maxIter.
PixelIter(vp, xc, yr, maxIter) ==
  LET c == {<<ToFix(Sample(vp.realStart, vp.realEnd, xc, WIDTH)),
              ToFix(Sample(vp.imStart, vp.imEnd, yr, HEIGHT))>>}
  IN CHOOSE m \in {mandelbrot(w[1], w[2], maxIter) : w \in c} : TRUE

\* colour = int(m - 1) % MAX_COLOURS   (coordinator, odd columns)
MainColour(m) == (m - 1) % MAX_COLOURS
\* colour = int(m - 1) % 15            (worker, even columns)
WorkerColour(m) == (m - 1) % WorkerModulus

\* ------------------------------------------------------------------ state
VARIABLES
  realStart, realEnd, imStart, imEnd,   \* the viewport (module globals)
  MAX_ITER, isHiRez,                    \* iteration budget and its toggle
  buffer,                               \* the framebuffer, WIDTH*HEIGHT bytes
  top_pix, bottom_pix, left_pix, right_pix,
  left0, right0, top0, bottom0,         \* previous cursor rectangle
  left, right, top, bottom,             \* current cursor rectangle
  x0, y0, z, newWidth, newHeight,       \* globals MoveCursor binds
  results, resultsReady,                \* the worker's column and its flag
  RE_START, RE_END, IM_START, IM_END,   \* DrawMandelbrotX's locals
  pc, x, y,                             \* coordinator: position, loop variables
  wpc, wy,                              \* worker threads, keyed by their column
  computed,                             \* observer: who computed each pixel
  resWriter,                            \* observer: whose value each results[y] is
  rendered,                             \* observer: the surface when the pass ended
  outline,                              \* observer: rectangles drawn and not restored
  hist,                                 \* observer: the last navigation events
  settle,                               \* observer: the handler slept 500 ms
  navCount,                             \* observer: Center/ZoomIn/ZoomOut events so far
  rezCount,                             \* observer: ChangeRez events so far
  pressed,                              \* observer: the buttons down at the last poll
  sampled                               \* observer: MoveCursor has read the knobs since Loop's last reset

vpVars == <<realStart, realEnd, imStart, imEnd, MAX_ITER, isHiRez>>
surfVars == <<buffer, top_pix, bottom_pix, left_pix, right_pix>>
prevVars == <<left0, right0, top0, bottom0>>
curVars == <<left, right, top, bottom, x0, y0, z, newWidth, newHeight>>
localVars == <<RE_START, RE_END, IM_START, IM_END>>
workVars == <<results, resultsReady, wpc, wy, resWriter>>
navObs == <<hist, settle, navCount, rezCount, pressed, sampled>>
vars == <<vpVars, surfVars, prevVars, curVars, localVars, workVars, navObs,
          pc, x, y, computed, rendered, outline>>

Cols == 0 .. (WIDTH - 1)
Rows == 0 .. (HEIGHT - 1)
EvenCols == {c \in Cols : c % 2 = 0}
Pixels == 0 .. (WIDTH * HEIGHT - 1)
\* A name that is not bound yet (reading it raises NameError).
Unbound == 0 - 1
NoWriter == 0 - 1

Viewport == [realStart |-> realStart, realEnd |-> realEnd,
             imStart |-> imStart, imEnd |-> imEnd]
LocalViewport == [realStart |-> RE_START, realEnd |-> RE_END,
                  imStart |-> IM_START, imEnd |-> IM_END]

\* Module-level initialisation, then main() -> Setup() -> Loop() up to "while True".
Init ==
  /\ realStart = InitialViewport.realStart /\ realEnd = InitialViewport.realEnd
  /\ imStart = InitialViewport.imStart /\ imEnd = InitialViewport.imEnd
  /\ MAX_ITER = InitialMaxIter /\ isHiRez = FALSE
  /\ buffer = [p \in Pixels |-> 0]
  /\ top_pix = [i \in Cols |-> 0] /\ bottom_pix = [i \in Cols |-> 0]
  /\ left_pix = [i \in Rows |-> 0] /\ right_pix = [i \in Rows |-> 0]
  /\ left0 = 0 /\ right0 = 0 /\ top0 = 0 /\ bottom0 = 0
  /\ left = 0 /\ right = 0 /\ top = 0 /\ bottom = 0
  /\ x0 = Unbound /\ y0 = Unbound /\ z = Unbound
  /\ newWidth = Unbound /\ newHeight = Unbound
  /\ results = [r \in Rows |-> 0] /\ resultsReady = FALSE
  /\ RE_START = RZero /\ RE_END = RZero /\ IM_START = RZero /\ IM_END = RZero
  /\ pc = "clear" /\ x = 0 /\ y = 0
  /\ wpc = [t \in EvenCols |-> "none"] /\ wy = [t \in EvenCols |-> 0]
  /\ computed = [p \in Pixels |-> <<>>]
  /\ resWriter = [r \in Rows |-> NoWriter]
  /\ rendered = [p \in Pixels |-> 0]
  /\ outline = {}
  /\ hist = <<>> /\ settle = FALSE /\ navCount = 0 /\ rezCount = 0 /\ pressed = {}
  /\ sampled = FALSE

\* ------------------------------------------------------------ display
\* display.pixel(px, py) with pen: writes the framebuffer inside the bounds only.
SetPixel(buf, px, py, pen) ==
  IF px \in Cols /\ py \in Rows THEN [buf EXCEPT ![py * WIDTH + px] = pen] ELSE buf

\* A Loop that does not reset the previous cursor.
LoopTop_keepPrevious ==
  /\ pc = "clear"
  /\ buffer' = [p \in Pixels |-> BLACK]
  /\ RE_START' = realStart /\ RE_END' = realEnd
  /\ IM_START' = imStart /\ IM_END' = imEnd
  /\ x' = 0 /\ y' = 0
  /\ pc' = "dispatch"
  /\ computed' = [p \in Pixels |-> <<>>]
  /\ outline' = {}
  /\ settle' = FALSE
  /\ pressed' = {}
  /\ sampled' = FALSE
  /\ UNCHANGED <<vpVars, top_pix, bottom_pix, left_pix, right_pix, prevVars, curVars,
                 workVars, rendered, hist, navCount, rezCount>>

\* ------------------------------------------------------------ Loop: top
\* Loop, lines 350-360: clear the screen, reset the previous cursor, and enter
\* DrawMandelbrotX (which copies the viewport into its locals).
LoopTop ==
  /\ pc = "clear"
  /\ buffer' = [p \in Pixels |-> BLACK]
  /\ left0' = 0 /\ right0' = 0 /\ top0' = 0 /\ bottom0' = 0
  /\ top_pix' = [top_pix EXCEPT ![0] = 0]
  /\ bottom_pix' = [bottom_pix EXCEPT ![0] = 0]
  /\ left_pix' = [left_pix EXCEPT ![0] = 0]
  /\ right_pix' = [right_pix EXCEPT ![0] = 0]
  /\ RE_START' = realStart /\ RE_END' = realEnd
  /\ IM_START' = imStart /\ IM_END' = imEnd
  /\ x' = 0 /\ y' = 0
  /\ pc' = "dispatch"
  /\ computed' = [p \in Pixels |-> <<>>]
  /\ outline' = {}
  /\ settle' = FALSE
  /\ pressed' = {}
  /\ sampled' = FALSE
  /\ UNCHANGED <<vpVars, curVars, workVars, rendered, hist, navCount, rezCount>>

\* ------------------------------------------------- DrawMandelbrotX (coordinator)
\* A coordinator that leaves the flag as the previous column pair left it.
ReadyAtDispatch_keep == resultsReady

\* resultsReady=False at the head of each column pair
ReadyAtDispatch == FALSE

\* Lines 129-130: reset the flag and start the worker for column x.
Dispatch ==
  /\ pc = "dispatch"
  /\ resultsReady' = ReadyAtDispatch
  /\ wpc' = [wpc EXCEPT ![x] = "run"]
  /\ wy' = [wy EXCEPT ![x] = 0]
  /\ y' = 0
  /\ pc' = "main"
  /\ UNCHANGED <<vpVars, surfVars, prevVars, curVars, localVars, results, resWriter,
                 navObs, x, computed, rendered, outline>>

\* A coordinator that computes the worker's column instead of its neighbour.
MainColumn_same(xc) == xc

\* x1 = x+1: the column the coordinator computes itself
MainColumn(xc) == xc + 1

\* Lines 135-142: one row of the coordinator's own column.
MainRow ==
  /\ pc = "main"
  /\ y < HEIGHT
  /\ \E x1 \in {MainColumn(x)} :
       \E colour \in {MainColour(PixelIter(LocalViewport, x1, y, MAX_ITER))} :
         /\ buffer' = IF colour > 0 THEN SetPixel(buffer, x1, y, PaletteByte(colour))
                      ELSE buffer
         /\ computed' = IF x1 \in Cols
                        THEN [computed EXCEPT ![y * WIDTH + x1] = Append(@, <<"main", x>>)]
                        ELSE computed
  /\ y' = y + 1
  /\ pc' = IF y + 1 < HEIGHT THEN "main" ELSE "wait"
  /\ UNCHANGED <<vpVars, top_pix, bottom_pix, left_pix, right_pix, prevVars, curVars,
                 localVars, workVars, navObs, x, rendered, outline>>

\* Lines 146-147: "while not resultsReady: pass" ends when the flag is read as True.
WaitReady ==
  /\ pc = "wait"
  /\ resultsReady
  /\ pc' = "plot"
  /\ y' = 0
  /\ UNCHANGED <<vpVars, surfVars, prevVars, curVars, localVars, workVars, navObs,
                 x, computed, rendered, outline>>

\* Lines 151-160: copy one entry of results into column x; after the last row
\* flush, and either go on with the next pair or return to Loop.
PlotRow ==
  /\ pc = "plot"
  /\ y < HEIGHT
  /\ buffer' = IF results[y] # 0 THEN SetPixel(buffer, x, y, PaletteByte(results[y]))
               ELSE buffer
  /\ IF y + 1 < HEIGHT
     THEN /\ y' = y + 1 /\ pc' = "plot" /\ x' = x /\ rendered' = rendered
     ELSE IF x + 2 < WIDTH
     THEN /\ y' = 0 /\ pc' = "dispatch" /\ x' = x + 2 /\ rendered' = rendered
     ELSE /\ y' = 0 /\ pc' = "buttons" /\ x' = x /\ rendered' = buffer'
  /\ UNCHANGED <<vpVars, top_pix, bottom_pix, left_pix, right_pix, prevVars, curVars,
                 localVars, workVars, navObs, computed, outline>>

\* ------------------------------------------------- mandelbrotThreadX (worker)
\* Lines 106-113: one row of the worker's column t, from the global viewport.
WorkerRow(t) ==
  /\ wpc[t] = "run"
  /\ wy[t] < HEIGHT
  /\ LET m == PixelIter(Viewport, t, wy[t], MAX_ITER)
     IN results' = [results EXCEPT ![wy[t]] = WorkerColour(m)]
  /\ resWriter' = [resWriter EXCEPT ![wy[t]] = t]
  /\ computed' = [computed EXCEPT ![wy[t] * WIDTH + t] = Append(@, <<"worker", t>>)]
  /\ wy' = [wy EXCEPT ![t] = @ + 1]
  /\ UNCHANGED <<vpVars, surfVars, prevVars, curVars, localVars, resultsReady, wpc,
                 navObs, pc, x, y, rendered, outline>>

\* A worker that ends without raising the flag.
WorkerSignal_silent(t) ==
  /\ wpc[t] = "run"
  /\ wy[t] = HEIGHT
  /\ wpc' = [wpc EXCEPT ![t] = "exit"]
  /\ UNCHANGED <<vpVars, surfVars, prevVars, curVars, localVars, results, resultsReady,
                 wy, resWriter, navObs, pc, x, y, computed, rendered, outline>>

\* Line 114: resultsReady = True, after the last row
WorkerSignal(t) ==
  /\ wpc[t] = "run"
  /\ wy[t] = HEIGHT
  /\ resultsReady' = TRUE
  /\ wpc' = [wpc EXCEPT ![t] = "exit"]
  /\ UNCHANGED <<vpVars, surfVars, prevVars, curVars, localVars, results, wy, resWriter,
                 navObs, pc, x, y, computed, rendered, outline>>

\* Line 116: _thread.exit()
WorkerExit(t) ==
  /\ wpc[t] = "exit"
  /\ wpc' = [wpc EXCEPT ![t] = "dead"]
  /\ UNCHANGED <<vpVars, surfVars, prevVars, curVars, localVars, results, resultsReady,
                 wy, resWriter, navObs, pc, x, y, computed, rendered, outline>>

Worker == \E t \in EvenCols : WorkerRow(t) \/ WorkerSignal(t) \/ WorkerExit(t)

\* ------------------------------------------------------------ analog inputs
\* A potentiometer reading is pot.read_voltage() / 3.3 = r / AdcMax, r in 0..AdcMax.
Readings == 0 .. AdcMax
\* int(pot.read_voltage() / 3.3 * WIDTH)
getCursorX(r) == (r * WIDTH) \div AdcMax
\* int(HEIGHT - (pot.read_voltage() / 3.3 * HEIGHT))
getCursorY(r) == (HEIGHT * AdcMax - r * HEIGHT) \div AdcMax
\* int(pot.read_voltage() / 3.3 * min(HEIGHT, WIDTH))
getZoomLevel(r) == (r * Min(HEIGHT, WIDTH)) \div AdcMax

\* Lines 201-215: the cursor rectangle of the three readings.
CursorOf(rx, ry, rz) ==
  LET zz == getZoomLevel(rz)
      nh == zz \div 2
      nw == (zz * WIDTH) \div (2 * HEIGHT)
      cx == Min(Max(nw, getCursorX(rx)), WIDTH - 1 - nw)
      cy == Min(Max(nh, getCursorY(ry)), HEIGHT - 1 - nh)
  IN [z |-> zz, newHeight |-> nh, newWidth |-> nw, x0 |-> cx, y0 |-> cy,
      left |-> cx - nw, right |-> cx + nw, top |-> cy - nh, bottom |-> cy + nh]

\* ------------------------------------------------------------ MoveCursor
\* Python indexing of a sequence of length n: k in -n..-1 counts from the end.
PyIndex(k, n) == IF k < 0 THEN k + n ELSE k
InRange(k, n) == k >= 0 - n /\ k < n
BufLen == WIDTH * HEIGHT
BufAt(buf, k) == buf[PyIndex(k, BufLen)]
BufPut(buf, k, v) == [buf EXCEPT ![PyIndex(k, BufLen)] = v]

\* Framebuffer positions of the four edge loops (restore and save use the same).
TopPos(l, t, i) == l + i - 1 + (t * WIDTH)
BottomPos(l, b, i) == l + i + (b * WIDTH)
LeftPos(l, t, i) == l + ((t + i) * WIDTH)
RightPos(r, t, i) == r + ((t + i - 1) * WIDTH)

\* Lines 225-227: for i in range(right0 - left0 + 1): top, then bottom.
RECURSIVE RestoreTopBottom(_, _, _)
RestoreTopBottom(buf, i, n) ==
  IF i >= n THEN buf
  ELSE RestoreTopBottom(
         BufPut(BufPut(buf, TopPos(left0, top0, i), top_pix[i]),
                BottomPos(left0, bottom0, i), bottom_pix[i]), i + 1, n)

\* Lines 228-230: for i in range(bottom0 - top0 + 1): left, then right.
RECURSIVE RestoreLeftRight(_, _, _)
RestoreLeftRight(buf, i, n) ==
  IF i >= n THEN buf
  ELSE RestoreLeftRight(
         BufPut(BufPut(buf, LeftPos(left0, top0, i), left_pix[i]),
                RightPos(right0, top0, i), right_pix[i]), i + 1, n)

\* "if left0 + right0 + top0 + bottom0 != 0": there is a previous cursor
HasPrevious == left0 + right0 + top0 + bottom0 # 0

Restored(buf) ==
  RestoreLeftRight(RestoreTopBottom(buf, 0, right0 - left0 + 1), 0, bottom0 - top0 + 1)

\* An assignment pix[i] = buffer[pos] raises IndexError when either index is
\* outside its sequence.
SaveFails(pos, i, len) == ~InRange(pos, BufLen) \/ ~InRange(i, len)
SetMin(S) == CHOOSE m \in S : \A k \in S : m <= k

\* Lines 236-238, for cursor c: the iteration that raises (the count when none does).
SaveStop1(c) ==
  LET n1 == c.right - c.left + 1
      bad == {i \in 0 .. (n1 - 1) :
                \/ SaveFails(TopPos(c.left, c.top, i), i, WIDTH)
                \/ SaveFails(BottomPos(c.left, c.bottom, i), i, WIDTH)}
  IN IF bad = {} THEN n1 ELSE SetMin(bad)

\* Lines 239-241
SaveStop2(c) ==
  LET n2 == c.bottom - c.top + 1
      bad == {i \in 0 .. (n2 - 1) :
                \/ SaveFails(LeftPos(c.left, c.top, i), i, HEIGHT)
                \/ SaveFails(RightPos(c.right, c.top, i), i, HEIGHT)}
  IN IF bad = {} THEN n2 ELSE SetMin(bad)

SaveCrash1(c) == SaveStop1(c) < c.right - c.left + 1
SaveCrash2(c) == SaveStop2(c) < c.bottom - c.top + 1
\* The save loops raise IndexError for cursor c.
SaveCrash(c) == SaveCrash1(c) \/ SaveCrash2(c)

\* The edge buffers after the save loops, from framebuffer buf; s1 and s2 are
\* SaveStop1(c) and SaveStop2(c), and the second loop runs only if the first ended.
SavedTop(buf, c, s1) ==
  [k \in Cols |->
     IF k < s1 \/ (k = s1 /\ k < c.right - c.left + 1
                   /\ ~SaveFails(TopPos(c.left, c.top, k), k, WIDTH))
     THEN BufAt(buf, TopPos(c.left, c.top, k)) ELSE top_pix[k]]
SavedBottom(buf, c, s1) ==
  [k \in Cols |->
     IF k < s1 THEN BufAt(buf, BottomPos(c.left, c.bottom, k)) ELSE bottom_pix[k]]
SavedLeft(buf, c, s1, s2) ==
  [k \in Rows |->
     IF s1 = c.right - c.left + 1
        /\ (k < s2 \/ (k = s2 /\ k < c.bottom - c.top + 1
                       /\ ~SaveFails(LeftPos(c.left, c.top, k), k, HEIGHT)))
     THEN BufAt(buf, LeftPos(c.left, c.top, k)) ELSE left_pix[k]]
SavedRight(buf, c, s1, s2) ==
  [k \in Rows |->
     IF s1 = c.right - c.left + 1 /\ k < s2
     THEN BufAt(buf, RightPos(c.right, c.top, k)) ELSE right_pix[k]]

\* display.line between two points of one row or one column, both ends drawn.
LinePixels(xa, ya, xb, yb) ==
  (Min(xa, xb) .. Max(xa, xb)) \X (Min(ya, yb) .. Max(ya, yb))

\* Lines 244-248: the four edges, as framebuffer positions inside the bounds
OutlinePixels(c) ==
  LET pts == LinePixels(c.left, c.top, c.right, c.top)
               \cup LinePixels(c.right, c.top, c.right, c.bottom)
               \cup LinePixels(c.left, c.bottom, c.right, c.bottom)
               \cup LinePixels(c.left, c.top, c.left, c.bottom)
  IN {q[2] * WIDTH + q[1] : q \in {r \in pts : r[1] \in Cols /\ r[2] \in Rows}}

DrawOutline(buf, pts) == [p \in Pixels |-> IF p \in pts THEN WHITE ELSE buf[p]]

Rect(l, r, t, b) == [left |-> l, right |-> r, top |-> t, bottom |-> b]

\* Every cursor the three readings can give, with what the save loops and the
\* outline of each are.
Cursors ==
  {CursorOf(rx, ry, rz) : rx \in Readings, ry \in Readings, rz \in Readings}
CursorPlan ==
  [c \in Cursors |-> [stop1 |-> SaveStop1(c), stop2 |-> SaveStop2(c),
                      crash |-> SaveCrash(c), pts |-> OutlinePixels(c)]]

\* MoveCursor, lines 199-253, when the sensor-read tick is due.
MoveCursor ==
  /\ pc = "cursor"
  /\ \E c \in Cursors :
       LET changed == left0 # c.left \/ right0 # c.right
                        \/ top0 # c.top \/ bottom0 # c.bottom
           restore == changed /\ HasPrevious
           buf1 == IF restore THEN Restored(buffer) ELSE buffer
           plan == CursorPlan[c]
       IN /\ z' = c.z /\ newHeight' = c.newHeight /\ newWidth' = c.newWidth
          /\ x0' = c.x0 /\ y0' = c.y0
          /\ left' = c.left /\ right' = c.right /\ top' = c.top /\ bottom' = c.bottom
          /\ IF ~changed
             THEN /\ pc' = "buttons"
                  /\ UNCHANGED <<surfVars, prevVars, outline>>
             ELSE /\ top_pix' = SavedTop(buf1, c, plan.stop1)
                  /\ bottom_pix' = SavedBottom(buf1, c, plan.stop1)
                  /\ left_pix' = SavedLeft(buf1, c, plan.stop1, plan.stop2)
                  /\ right_pix' = SavedRight(buf1, c, plan.stop1, plan.stop2)
                  /\ IF plan.crash
                     THEN /\ pc' = "crashed"
                          /\ buffer' = buf1
                          /\ outline' = IF restore THEN {} ELSE outline
                          /\ UNCHANGED prevVars
                     ELSE /\ pc' = "buttons"
                          /\ buffer' = DrawOutline(buf1, plan.pts)
                          /\ outline' = {Rect(c.left, c.right, c.top, c.bottom)}
                          /\ left0' = c.left /\ right0' = c.right
                          /\ top0' = c.top /\ bottom0' = c.bottom
  /\ sampled' = TRUE
  /\ UNCHANGED <<vpVars, localVars, workVars, hist, settle, navCount, rezCount,
                 pressed, x, y, computed, rendered>>

\* MoveCursor before the tick is due (time.ticks_ms() < nextSensorRead): no effect.
MoveCursorIdle ==
  /\ pc = "cursor"
  /\ pc' = "buttons"
  /\ UNCHANGED <<vpVars, surfVars, prevVars, curVars, localVars, workVars, navObs,
                 x, y, computed, rendered, outline>>

\* ------------------------------------------------------------ ButtonPressed
\* ButtonPressed() is ChangeRez() or Center() or ZoomIn() or ZoomOut(): the
\* handlers run in this order until one reads its button as pressed.
Buttons == {"rez", "center", "zoomin", "zoomout"}

\* A chain that lets the last handler whose button is down win.
ButtonPressed_last(held) ==
  IF "zoomout" \in held THEN "zoomout"
  ELSE IF "zoomin" \in held THEN "zoomin"
  ELSE IF "center" \in held THEN "center"
  ELSE IF "rez" \in held THEN "rez"
  ELSE "none"

\* Line 310: the handler that acts when the buttons of held are down.
ButtonPressed(held) ==
  IF "rez" \in held THEN "rez"
  ELSE IF "center" \in held THEN "center"
  ELSE IF "zoomin" \in held THEN "zoomin"
  ELSE IF "zoomout" \in held THEN "zoomout"
  ELSE "none"

\* The poll of line 361 with the buttons of some set held down; name is the
\* handler that acts.  A poll reads no knob.
Polled(name) ==
  /\ \E held \in SUBSET Buttons : ButtonPressed(held) = name /\ pressed' = held
  /\ sampled' = sampled

\* No button read as pressed: Loop calls MoveCursor.
PollNone ==
  /\ pc = "buttons"
  /\ Polled("none")
  /\ pc' = "cursor"
  /\ UNCHANGED <<hist, settle, navCount, rezCount>>
  /\ UNCHANGED <<vpVars, surfVars, prevVars, curVars, localVars, workVars,
                 x, y, computed, rendered, outline>>


\* ------------------------------------------------------------ navigation
\* A ZoomIn whose realEnd and imEnd forget the rectangle's offset.
ZoomInVp_absoluteEnd(vp, l, r, t, b) ==
  LET realRange == RSub(vp.realEnd, vp.realStart)
      imRange == RSub(vp.imEnd, vp.imStart)
      rs == RAdd(vp.realStart, RScale(realRange, l, WIDTH))
      is == RAdd(vp.imStart, RScale(imRange, t, HEIGHT))
  IN [realStart |-> rs, realEnd |-> RAdd(rs, RScale(realRange, r, WIDTH)),
      imStart |-> is, imEnd |-> RAdd(is, RScale(imRange, b, HEIGHT))]

\* A ZoomIn that counts the rectangle's last column and row as part of it.
ZoomInVp_inclusive(vp, l, r, t, b) ==
  LET realRange == RSub(vp.realEnd, vp.realStart)
      imRange == RSub(vp.imEnd, vp.imStart)
      rs == RAdd(vp.realStart, RScale(realRange, l, WIDTH))
      is == RAdd(vp.imStart, RScale(imRange, t, HEIGHT))
  IN [realStart |-> rs, realEnd |-> RAdd(rs, RScale(realRange, r - l + 1, WIDTH)),
      imStart |-> is, imEnd |-> RAdd(is, RScale(imRange, b - t + 1, HEIGHT))]

\* A ZoomOut that adds a quarter of the span on each side.
ZoomOutVp_quarter(vp) ==
  LET realDelta == RScale(RSub(vp.realEnd, vp.realStart), 1, 4)
      imDelta == RScale(RSub(vp.imEnd, vp.imStart), 1, 4)
  IN [realStart |-> RSub(vp.realStart, realDelta),
      realEnd |-> RAdd(vp.realEnd, realDelta),
      imStart |-> RSub(vp.imStart, imDelta),
      imEnd |-> RAdd(vp.imEnd, imDelta)]

\* A ZoomOut that adds the whole span at the end of each axis only.
ZoomOutVp_oneSided(vp) ==
  [realStart |-> vp.realStart,
   realEnd |-> RAdd(vp.realEnd, RSub(vp.realEnd, vp.realStart)),
   imStart |-> vp.imStart,
   imEnd |-> RAdd(vp.imEnd, RSub(vp.imEnd, vp.imStart))]

\* ZoomIn, lines 268-273, on the rectangle (l, r, t, b)
ZoomInVp(vp, l, r, t, b) ==
  LET realRange == RSub(vp.realEnd, vp.realStart)
      imRange == RSub(vp.imEnd, vp.imStart)
      rs == RAdd(vp.realStart, RScale(realRange, l, WIDTH))
      is == RAdd(vp.imStart, RScale(imRange, t, HEIGHT))
  IN [realStart |-> rs, realEnd |-> RAdd(rs, RScale(realRange, r - l, WIDTH)),
      imStart |-> is, imEnd |-> RAdd(is, RScale(imRange, b - t, HEIGHT))]

\* ZoomOut, lines 283-291
ZoomOutVp(vp) ==
  LET realDelta == RScale(RSub(vp.realEnd, vp.realStart), 1, 2)
      imDelta == RScale(RSub(vp.imEnd, vp.imStart), 1, 2)
  IN [realStart |-> RSub(vp.realStart, realDelta),
      realEnd |-> RAdd(vp.realEnd, realDelta),
      imStart |-> RSub(vp.imStart, imDelta),
      imEnd |-> RAdd(vp.imEnd, imDelta)]

\* Center, lines 320-332, with cx = getCursorX(mPot0) and cy = getCursorY(mPot1)
CenterVp(vp, cx, cy) ==
  LET realDelta == RScale(RSub(vp.realEnd, vp.realStart), cx - width2, WIDTH)
      imDelta == RScale(RSub(vp.imEnd, vp.imStart), cy - height2, HEIGHT)
  IN [realStart |-> RAdd(vp.realStart, realDelta),
      realEnd |-> RAdd(vp.realEnd, realDelta),
      imStart |-> RAdd(vp.imStart, imDelta),
      imEnd |-> RAdd(vp.imEnd, imDelta)]

\* A ChangeRez that never halves the budget.
RezIter_noHalve(iter, hi) == IF hi THEN iter * 2 ELSE iter

\* ChangeRez, lines 300-304: the budget after the toggle (hi is the new isHiRez).
\* MAX_ITER / 2 is a true division; the budget it halves is a doubled one.
RezIter(iter, hi) == IF hi THEN iter * 2 ELSE iter \div 2

\* What hist keeps of an event, newest first and two at most: the handler, the
\* viewport and budget it started from and, for ZoomIn, the rectangle it used
\* (for Center, the point it read from the two cursor knobs).
NoRect == Rect(0, 0, 0, 0)
Event(name, rc) == [event |-> name, vp |-> Viewport, iter |-> MAX_ITER, rect |-> rc]
Pushed(name, rc) ==
  IF hist = <<>> THEN <<Event(name, rc)>> ELSE <<Event(name, rc), hist[1]>>

SetViewport(vp) ==
  /\ realStart' = vp.realStart /\ realEnd' = vp.realEnd
  /\ imStart' = vp.imStart /\ imEnd' = vp.imEnd

\* ChangeRez reads its button as pressed.
PollRez ==
  /\ pc = "buttons"
  /\ Polled("rez")
  /\ isHiRez' = ~isHiRez
  /\ MAX_ITER' = RezIter(MAX_ITER, ~isHiRez)
  /\ settle' = TRUE
  /\ hist' = Pushed("rez", NoRect)
  /\ rezCount' = rezCount + 1
  /\ navCount' = navCount
  /\ pc' = "clear"
  /\ UNCHANGED <<realStart, realEnd, imStart, imEnd, surfVars, prevVars, curVars,
                 localVars, workVars, x, y, computed, rendered, outline>>

\* ChangeRez reads not pressed, Center reads pressed; Center reads the two
\* cursor knobs again and does not sleep.
PollCenter ==
  /\ pc = "buttons"
  /\ Polled("center")
  /\ \E rx \in Readings, ry \in Readings :
       LET cx == getCursorX(rx)
           cy == getCursorY(ry)
       IN /\ SetViewport(CenterVp(Viewport, cx, cy))
          /\ hist' = Pushed("center", Rect(cx, cx, cy, cy))
  /\ settle' = FALSE
  /\ navCount' = navCount + 1
  /\ rezCount' = rezCount
  /\ pc' = "clear"
  /\ UNCHANGED <<MAX_ITER, isHiRez, surfVars, prevVars, curVars,
                 localVars, workVars, x, y, computed, rendered, outline>>

\* ChangeRez and Center read not pressed, ZoomIn reads pressed.  Line 267
\* prints z, newWidth and newHeight, which only MoveCursor binds: before the
\* first MoveCursor the handler ends in NameError.
PollZoomIn ==
  /\ pc = "buttons"
  /\ Polled("zoomin")
  /\ IF z = Unbound
     THEN /\ pc' = "crashed"
          /\ UNCHANGED <<realStart, realEnd, imStart, imEnd, hist, settle,
                         navCount, rezCount>>
     ELSE /\ SetViewport(ZoomInVp(Viewport, left, right, top, bottom))
          /\ settle' = TRUE
          /\ hist' = Pushed("zoomin", Rect(left, right, top, bottom))
          /\ navCount' = navCount + 1
          /\ rezCount' = rezCount
          /\ pc' = "clear"
  /\ UNCHANGED <<MAX_ITER, isHiRez, surfVars, prevVars, curVars,
                 localVars, workVars, x, y, computed, rendered, outline>>

\* Only ZoomOut reads pressed.
PollZoomOut ==
  /\ pc = "buttons"
  /\ Polled("zoomout")
  /\ SetViewport(ZoomOutVp(Viewport))
  /\ settle' = TRUE
  /\ hist' = Pushed("zoomout", NoRect)
  /\ navCount' = navCount + 1
  /\ rezCount' = rezCount
  /\ pc' = "clear"
  /\ UNCHANGED <<MAX_ITER, isHiRez, surfVars, prevVars, curVars,
                 localVars, workVars, x, y, computed, rendered, outline>>

\* ---------------------------------------------------- navigation, projected
\* The framebuffer a pass leaves from a cleared screen: each pixel drawn once,
\* the even columns with the worker's colour, the odd ones with the coordinator's.
PassImage(vp, iter) ==
  [p \in Pixels |->
     LET m == PixelIter(vp, p % WIDTH, p \div WIDTH, iter)
         colour == IF (p % WIDTH) % 2 = 0 THEN WorkerColour(m) ELSE MainColour(m)
     IN IF colour > 0 THEN PaletteByte(colour) ELSE BLACK]

\* DrawMandelbrotX as the navigation state sees it: the pass writes the
\* framebuffer, results and resultsReady only, and returns to Loop.
PassReturns ==
  /\ pc = "dispatch"
  /\ buffer' = PassImage(Viewport, MAX_ITER)
  /\ rendered' = buffer'
  /\ pc' = "buttons"
  /\ UNCHANGED <<vpVars, top_pix, bottom_pix, left_pix, right_pix, prevVars, curVars,
                 localVars, workVars, navObs, x, y, computed, outline>>

\* MoveCursor as the navigation state sees it: lines 201-215 bind the cursor;
\* lines 219-251 either end in IndexError or record the rectangle as previous
\* and as the one outlined (the outline itself is not drawn here).
CursorMoves ==
  /\ pc = "cursor"
  /\ \E c \in Cursors :
       LET changed == left0 # c.left \/ right0 # c.right
                        \/ top0 # c.top \/ bottom0 # c.bottom
       IN /\ z' = c.z /\ newHeight' = c.newHeight /\ newWidth' = c.newWidth
          /\ x0' = c.x0 /\ y0' = c.y0
          /\ left' = c.left /\ right' = c.right /\ top' = c.top /\ bottom' = c.bottom
          /\ IF changed /\ CursorPlan[c].crash
             THEN /\ pc' = "crashed"
                  /\ outline' = IF HasPrevious THEN {} ELSE outline
                  /\ UNCHANGED prevVars
             ELSE /\ pc' = "buttons"
                  /\ outline' = IF changed
                                THEN {Rect(c.left, c.right, c.top, c.bottom)}
                                ELSE outline
                  /\ left0' = c.left /\ right0' = c.right
                  /\ top0' = c.top /\ bottom0' = c.bottom
  /\ sampled' = TRUE
  /\ UNCHANGED <<vpVars, surfVars, localVars, workVars, hist, settle, navCount,
                 rezCount, pressed, x, y, computed, rendered>>

\* The navigation loop: Loop with the render pass and MoveCursor projected,
\* for MaxNav viewport changes and MaxRez resolution toggles.
NextNav ==
  \/ LoopTop \/ PassReturns
  \/ PollNone \/ CursorMoves \/ MoveCursorIdle
  \/ (rezCount < MaxRez /\ PollRez)
  \/ (navCount < MaxNav /\ PollCenter)
  \/ (navCount < MaxNav /\ PollZoomIn)
  \/ (navCount < MaxNav /\ PollZoomOut)

SpecNav == Init /\ [][NextNav]_vars

\* ------------------------------------------------ the zoom handlers alone
\* ZoomIn and ZoomOut are functions of the viewport and the cursor rectangle.
\* Here the rectangle is any rectangle of the surface and the viewport one of
\* ZoomViewports; Loop then applies MaxZoom zoom steps in any order.
SurfaceRects ==
  {Rect(l, r, t, b) : l \in Cols, r \in Cols, t \in Rows, b \in Rows}
InSurface(rc) ==
  /\ 0 <= rc.left /\ rc.left <= rc.right /\ rc.right < WIDTH
  /\ 0 <= rc.top /\ rc.top <= rc.bottom /\ rc.bottom < HEIGHT
OffCentreViewport == [realStart |-> Norm(0 - 1, 3), realEnd |-> Norm(3, 7),
                      imStart |-> Norm(1, 10), imEnd |-> Norm(9, 4)]
ZoomViewports == {InitialViewport, OffCentreViewport}

InitZoom ==
  /\ \E vp \in ZoomViewports :
       /\ realStart = vp.realStart /\ realEnd = vp.realEnd
       /\ imStart = vp.imStart /\ imEnd = vp.imEnd
  /\ \E rc \in {q \in SurfaceRects : InSurface(q)} :
       /\ left = rc.left /\ right = rc.right /\ top = rc.top /\ bottom = rc.bottom
       /\ x0 = (rc.left + rc.right) \div 2 /\ y0 = (rc.top + rc.bottom) \div 2
       /\ newWidth = (rc.right - rc.left) \div 2
       /\ newHeight = (rc.bottom - rc.top) \div 2
       /\ z = rc.bottom - rc.top
  /\ MAX_ITER = InitialMaxIter /\ isHiRez = FALSE
  /\ buffer = [p \in Pixels |-> 0]
  /\ top_pix = [i \in Cols |-> 0] /\ bottom_pix = [i \in Cols |-> 0]
  /\ left_pix = [i \in Rows |-> 0] /\ right_pix = [i \in Rows |-> 0]
  /\ left0 = 0 /\ right0 = 0 /\ top0 = 0 /\ bottom0 = 0
  /\ results = [r \in Rows |-> 0] /\ resultsReady = FALSE
  /\ RE_START = RZero /\ RE_END = RZero /\ IM_START = RZero /\ IM_END = RZero
  /\ pc = "buttons" /\ x = 0 /\ y = 0
  /\ wpc = [t \in EvenCols |-> "none"] /\ wy = [t \in EvenCols |-> 0]
  /\ computed = [p \in Pixels |-> <<>>]
  /\ resWriter = [r \in Rows |-> NoWriter]
  /\ rendered = [p \in Pixels |-> 0]
  /\ outline = {}
  /\ hist = <<>> /\ settle = FALSE /\ navCount = 0 /\ rezCount = 0 /\ pressed = {}
  /\ sampled = FALSE

NextZoom ==
  \/ LoopTop \/ PassReturns
  \/ (navCount < MaxZoom /\ PollZoomIn)
  \/ (navCount < MaxZoom /\ PollZoomOut)

SpecZoom == InitZoom /\ [][NextZoom]_vars

\* ------------------------------------------------------------ the program
\* From power-on: the render pass, then the cursor loop while no button is
\* read as pressed.
Next ==
  \/ LoopTop \/ Dispatch \/ MainRow \/ WaitReady \/ PlotRow
  \/ Worker
  \/ PollNone \/ MoveCursor \/ MoveCursorIdle

Spec == Init /\ [][Next]_vars

\* ------------------------------------------- the program with its buttons
\* Loop with every step of the render pass, and a button down at the first
\* poll after each pass: ChangeRez or ZoomOut acts and the next pass starts.
\* The coordinator keeps running and each worker thread, once started, keeps
\* being scheduled.
Coordinator == LoopTop \/ Dispatch \/ MainRow \/ WaitReady \/ PlotRow

NextPass ==
  \/ Coordinator
  \/ Worker
  \/ (rezCount < MaxRez /\ PollRez)
  \/ (navCount < MaxNav /\ PollZoomOut)

SpecPass ==
  /\ Init /\ [][NextPass]_vars
  /\ WF_vars(Coordinator)
  /\ \A t \in EvenCols : WF_vars(WorkerRow(t) \/ WorkerSignal(t) \/ WorkerExit(t))

\* ------------------------------------------------------------ render pass
\* The render pass has returned to Loop.
PassDone == pc \in {"buttons", "cursor", "crashed"}

\* C1: in a render pass every pixel is computed exactly once, the even columns
\* by the worker started for that column and the odd columns by the coordinator
\* in the pair of the column before; no pixel is computed twice at any moment and
\* none is left out when the pass ends.
C1_ComputedOnce ==
  /\ \A p \in Pixels :
       /\ Len(computed[p]) <= 1
       /\ computed[p] # <<>> =>
            computed[p][1] = IF (p % WIDTH) % 2 = 0 THEN <<"worker", p % WIDTH>>
                             ELSE <<"main", (p % WIDTH) - 1>>
  /\ PassDone => \A p \in Pixels : Len(computed[p]) = 1

C1_PassFinished == pc = "buttons" /\ \A p \in Pixels : Len(computed[p]) = 1

\* C2: whenever the coordinator is copying results (after its wait loop), the
\* ready flag is true and every entry of results was written by the worker of
\* the column x being copied, and is that worker's value for the row.
C2_ReadAfterReady ==
  pc = "plot" =>
    /\ resultsReady
    /\ \A r \in Rows :
         /\ resWriter[r] = x
         /\ results[r] = WorkerColour(PixelIter(Viewport, x, r, MAX_ITER))

C2_SecondColumnRead == pc = "plot" /\ x > 0 /\ y > 0 /\ resultsReady

\* C3: every palette index the worker stored is the index the coordinator's
\* formula gives for the same point and budget.
C3_SameIndex ==
  \A r \in Rows :
    resWriter[r] # NoWriter =>
      results[r] = MainColour(PixelIter(Viewport, resWriter[r], r, MAX_ITER))

\* ------------------------------------------------------------ cursor overlay
Border(rc) ==
  {p \in Pixels :
     LET px == p % WIDTH
         py == p \div WIDTH
     IN \/ px \in {rc.left, rc.right} /\ py >= rc.top /\ py <= rc.bottom
        \/ py \in {rc.top, rc.bottom} /\ px >= rc.left /\ px <= rc.right}

\* C4: in the cursor loop every pixel that is not on the border of the rectangle
\* outlined now holds the value it had when the render pass finished.
C4_RestoreExact ==
  PassDone =>
    \A p \in Pixels :
      (\A rc \in outline : p \notin Border(rc)) => buffer[p] = rendered[p]

\* C5: the cursor rectangle MoveCursor derives lies on the surface.
C5_CursorOnSurface ==
  z # Unbound =>
    /\ 0 <= left /\ left <= right /\ right < WIDTH
    /\ 0 <= top /\ top <= bottom /\ bottom < HEIGHT

\* ------------------------------------------------------------ navigation
Span(vp) == [re |-> RSub(vp.realEnd, vp.realStart), im |-> RSub(vp.imEnd, vp.imStart)]
\* Twice the centre of each axis.
Centre2(vp) == [re |-> RAdd(vp.realStart, vp.realEnd), im |-> RAdd(vp.imStart, vp.imEnd)]
Last(name) == hist # <<>> /\ hist[1].event = name

\* C6: the viewport a render pass starts from has realEnd > realStart and
\* imEnd > imStart.
C6_ViewportNonEmpty ==
  pc = "dispatch" => RLess(realStart, realEnd) /\ RLess(imStart, imEnd)

\* C7: after ZoomIn on the rectangle (left, right, top, bottom) the viewport is
\* the old viewport's samples of column left, column right, row top and row
\* bottom.
C7_ZoomInImage ==
  Last("zoomin") =>
    LET o == hist[1].vp
        rc == hist[1].rect
    IN /\ realStart = Sample(o.realStart, o.realEnd, rc.left, WIDTH)
       /\ realEnd = Sample(o.realStart, o.realEnd, rc.right, WIDTH)
       /\ imStart = Sample(o.imStart, o.imEnd, rc.top, HEIGHT)
       /\ imEnd = Sample(o.imStart, o.imEnd, rc.bottom, HEIGHT)

C7_ZoomedInside ==
  /\ Last("zoomin")
  /\ hist[1].rect.left > 0 /\ hist[1].rect.right > hist[1].rect.left
  /\ hist[1].rect.top > 0 /\ hist[1].rect.bottom > hist[1].rect.top

FullSurface == Rect(0, WIDTH - 1, 0, HEIGHT - 1)

C9_ZoomOutDoubles ==
  Last("zoomout") =>
    LET o == hist[1].vp
    IN /\ Span(Viewport).re = RScale(Span(o).re, 2, 1)
       /\ Span(Viewport).im = RScale(Span(o).im, 2, 1)
       /\ Centre2(Viewport) = Centre2(o)
       /\ MAX_ITER = hist[1].iter

C9_ZoomedOut ==
  /\ Last("zoomout")
  /\ RLess(hist[1].vp.realStart, hist[1].vp.realEnd)
  /\ RLess(hist[1].vp.imStart, hist[1].vp.imEnd)

ZoomInThenOut == Len(hist) = 2 /\ hist[1].event = "zoomout" /\ hist[2].event = "zoomin"
Contains(vp, o) ==
  /\ RLeq(vp.realStart, o.realStart) /\ RLeq(o.realEnd, vp.realEnd)
  /\ RLeq(vp.imStart, o.imStart) /\ RLeq(o.imEnd, vp.imEnd)

\* C10 as claimed: ZoomIn then ZoomOut gives a viewport that contains the
\* viewport before the ZoomIn and has its centre.
C10_BackToSuperset ==
  ZoomInThenOut =>
    /\ Contains(Viewport, hist[2].vp)
    /\ Centre2(Viewport) = Centre2(hist[2].vp)

\* C10 as amended: ZoomIn on R then ZoomOut gives a viewport that contains the
\* image of R under the sampling map before the ZoomIn, centred on that image
\* and twice its span.
C10_AroundZoomedRect ==
  ZoomInThenOut =>
    LET o == hist[2].vp
        rc == hist[2].rect
        img == [realStart |-> Sample(o.realStart, o.realEnd, rc.left, WIDTH),
                realEnd |-> Sample(o.realStart, o.realEnd, rc.right, WIDTH),
                imStart |-> Sample(o.imStart, o.imEnd, rc.top, HEIGHT),
                imEnd |-> Sample(o.imStart, o.imEnd, rc.bottom, HEIGHT)]
    IN /\ Contains(Viewport, img)
       /\ Centre2(Viewport) = Centre2(img)
       /\ Span(Viewport).re = RScale(Span(img).re, 2, 1)
       /\ Span(Viewport).im = RScale(Span(img).im, 2, 1)

C10_ZoomedInThenOut ==
  /\ ZoomInThenOut
  /\ hist[2].rect.right > hist[2].rect.left
  /\ hist[2].rect.bottom > hist[2].rect.top
  /\ ~Contains(Viewport, hist[2].vp)

\* C11: the budget is InitialMaxIter when isHiRez is false and twice that
\* when it is true; after two ChangeRez in a row the budget is what it was
\* before the first; ChangeRez leaves the viewport as it was.
C11_RezToggle ==
  /\ MAX_ITER = IF isHiRez THEN 2 * InitialMaxIter ELSE InitialMaxIter
  /\ Last("rez") => Viewport = hist[1].vp
  /\ (Len(hist) = 2 /\ hist[1].event = "rez" /\ hist[2].event = "rez")
       => MAX_ITER = hist[2].iter

C11_ToggledTwice ==
  /\ Len(hist) = 2 /\ hist[1].event = "rez" /\ hist[2].event = "rez"
  /\ pc = "clear" /\ z # Unbound

\* Center read the knobs where MoveCursor read them for the box on display.
KnobsAtCursor(e) ==
  /\ z # Unbound
  /\ Rect(left0, right0, top0, bottom0) = Rect(left, right, top, bottom)
  /\ x0 = Min(Max(newWidth, e.rect.left), WIDTH - 1 - newWidth)
  /\ y0 = Min(Max(newHeight, e.rect.top), HEIGHT - 1 - newHeight)

\* C12: after Center the spans are what they were and the centre of the
\* viewport is the plane point under the centre (x0, y0) of the cursor box on
\* display.
C12_CentreOnCursorBox ==
  (pc = "clear" /\ Last("center") /\ KnobsAtCursor(hist[1])) =>
    LET o == hist[1].vp
    IN /\ Span(Viewport) = Span(o)
       /\ Centre2(Viewport).re = RScale(Sample(o.realStart, o.realEnd, x0, WIDTH), 2, 1)
       /\ Centre2(Viewport).im = RScale(Sample(o.imStart, o.imEnd, y0, HEIGHT), 2, 1)

\* The place of each handler in the order of line 310.
Priority == [b \in Buttons |->
               CASE b = "rez" -> 1 [] b = "center" -> 2
                 [] b = "zoomin" -> 3 [] b = "zoomout" -> 4]

\* C13: when a poll ends the cursor loop, the handler that acted is the one
\* first in the order ChangeRez, Center, ZoomIn, ZoomOut among the buttons that
\* were down, and the viewport and budget going into the next render pass are
\* those of that one handler applied once.
C13_OneByPriority ==
  (pc = "clear" /\ hist # <<>>) =>
    LET e == hist[1]
    IN /\ e.event \in pressed
       /\ \A b \in pressed : Priority[e.event] <= Priority[b]
       /\ e.event = "rez" =>
            /\ Viewport = e.vp
            /\ MAX_ITER = RezIter(e.iter, isHiRez)
       /\ e.event = "center" =>
            /\ Viewport = CenterVp(e.vp, e.rect.left, e.rect.top)
            /\ MAX_ITER = e.iter
       /\ e.event = "zoomin" =>
            /\ Viewport = ZoomInVp(e.vp, e.rect.left, e.rect.right,
                                   e.rect.top, e.rect.bottom)
            /\ MAX_ITER = e.iter
       /\ e.event = "zoomout" =>
            /\ Viewport = ZoomOutVp(e.vp)
            /\ MAX_ITER = e.iter

C13_SeveralDown ==
  /\ pc = "clear" /\ hist # <<>>
  /\ hist[1].event = "center"
  /\ pressed = {"center", "zoomin", "zoomout"}
  /\ Viewport # hist[1].vp

\* C14: when a handler has acted and Loop is about to start the next render
\* pass, the handler has slept its 500 ms.
C14_SettleBeforePass ==
  (pc = "clear" /\ hist # <<>>) => settle

\* DrawMandelbrotX is running.
InPass == pc \in {"dispatch", "main", "wait", "plot"}

\* C15: a render pass that starts ends: the wait on resultsReady ends for
\* every column pair and Loop gets to poll the buttons; while the pass runs no
\* handler acts, the viewport and the budget stay what they were at its start,
\* and they are the ones the pass draws.
C15_PassCompletes ==
  /\ [][InPass => (vpVars' = vpVars /\ hist' = hist /\ pressed' = pressed)]_vars
  /\ [](InPass => Viewport = LocalViewport)
  /\ \A c \in EvenCols : (pc = "wait" /\ x = c) ~> (pc = "plot" /\ x = c)
  /\ (pc = "dispatch" /\ x = 0) ~> (pc = "buttons")

C15_SecondPassDone ==
  /\ pc = "buttons" /\ hist # <<>> /\ hist[1].event = "zoomout"
  /\ \A p \in Pixels : Len(computed[p]) = 1

\* The surface a finished pass leaves is PassImage of its viewport and budget.
PassLeavesImage == pc = "buttons" => rendered = PassImage(Viewport, MAX_ITER)

\* C16: when DrawMandelbrotX is entered the previous cursor is all zero and the
\* framebuffer is all BLACK; and as long as no outline has been drawn since,
\* the test of line 222 finds no previous cursor, so the first change of the
\* cursor restores nothing.
C16_ResetOnEntry ==
  /\ pc = "dispatch" =>
       /\ left0 = 0 /\ right0 = 0 /\ top0 = 0 /\ bottom0 = 0
       /\ \A p \in Pixels : buffer[p] = BLACK
  /\ (pc \in {"dispatch", "buttons", "cursor"} /\ outline = {}) => ~HasPrevious

C16_SecondEntry ==
  /\ pc = "dispatch" /\ hist # <<>>
  /\ Rect(left, right, top, bottom) # NoRect
  /\ \E p \in Pixels : rendered[p] # BLACK

\* The surface positions each edge buffer holds for region e (lines 236-241),
\* and the four corners of e.
EdgePositions(e) ==
  [top    |-> {PyIndex(TopPos(e.left, e.top, i), BufLen) : i \in 0..(e.right - e.left)},
   bottom |-> {PyIndex(BottomPos(e.left, e.bottom, i), BufLen) : i \in 0..(e.right - e.left)},
   left   |-> {PyIndex(LeftPos(e.left, e.top, i), BufLen) : i \in 0..(e.bottom - e.top)},
   right  |-> {PyIndex(RightPos(e.right, e.top, i), BufLen) : i \in 0..(e.bottom - e.top)}]

TopCorners(e) == {e.left + e.top * WIDTH, e.right + e.top * WIDTH}
BottomCorners(e) == {e.left + e.bottom * WIDTH, e.right + e.bottom * WIDTH}

\* C17: for the outlined region, when it is a proper rectangle, the top buffer
\* holds both top corners, the bottom buffer both bottom corners, and the left
\* and right buffers hold no corner, so each corner is saved (and later
\* restored) exactly once.
C17_CornersOnce ==
  \A e \in outline :
    (pc # "crashed" /\ e.right > e.left /\ e.bottom > e.top) =>
      LET held == EdgePositions(e)
      IN /\ TopCorners(e) \subseteq held.top
         /\ BottomCorners(e) \subseteq held.bottom
         /\ (TopCorners(e) \cup BottomCorners(e)) \cap (held.left \cup held.right) = {}
         /\ TopCorners(e) \cap held.bottom = {}
         /\ BottomCorners(e) \cap held.top = {}

\* The workers that have been started and have not yet left _thread.exit().
LiveWorkers == {t \in EvenCols : wpc[t] \in {"run", "exit"}}

\* C18: at most one worker is alive at any moment, and a worker is dispatched
\* only when every earlier worker has terminated.
C18_OneWorker ==
  /\ Cardinality(LiveWorkers) <= 1
  /\ pc = "dispatch" => LiveWorkers = {}

\* C19: a ZoomIn that has acted used a rectangle MoveCursor sampled since the
\* last pass, which is the one outlined (an all-zero sample as the first of
\* the phase is not outlined, lines 220-222), and no poll that selects ZoomIn
\* finds the cursor never sampled.
C19_ZoomsOutlinedRegion ==
  /\ (pc = "clear" /\ Last("zoomin")) =>
       /\ sampled
       /\ outline = IF hist[1].rect = NoRect /\ outline = {} THEN {} ELSE {hist[1].rect}
  /\ ~(pc = "crashed" /\ ButtonPressed(pressed) = "zoomin")

\* The framebuffer subscripts the edge loops compute for region e, as written
\* (before Python's treatment of a negative subscript).
LoopPositions(e) ==
  {TopPos(e.left, e.top, i) : i \in 0..(e.right - e.left)}
    \cup {BottomPos(e.left, e.bottom, i) : i \in 0..(e.right - e.left)}
    \cup {LeftPos(e.left, e.top, i) : i \in 0..(e.bottom - e.top)}
    \cup {RightPos(e.right, e.top, i) : i \in 0..(e.bottom - e.top)}

\* C20: for the region MoveCursor last derived (other than the all-zero one,
\* for which the loops may not run), every framebuffer subscript of the save
\* and restore loops is in 0 .. W*H-1 and is a border pixel of the region, the
\* top/bottom buffer indices stay below WIDTH and the left/right ones below
\* HEIGHT.
C20_LoopsInBounds ==
  (z # Unbound /\ Rect(left, right, top, bottom) # NoRect) =>
    LET e == Rect(left, right, top, bottom)
    IN /\ \A k \in LoopPositions(e) : k \in Pixels /\ k \in Border(e)
       /\ right - left < WIDTH
       /\ bottom - top < HEIGHT

====
